---- MODULE Spec2Model ----
(***************************************************************************)
(* fxTwitch (src/fxtwitch_cache.py): an HTTP relay that resolves a Twitch  *)
(* clip id into Open Graph metadata (for crawlers) or a redirect to the    *)
(* video (for everybody else).                                             *)
(*                                                                         *)
(* Text.  A Python str is modelled as a sequence of fragments; the str is  *)
(* the concatenation of the fragments.  Data that comes from outside (the  *)
(* upstream replies, the user agent) is a sequence of one-character        *)
(* fragments; a literal of the source is one fragment (or several, split   *)
(* where that is convenient).  String formatting is concatenation.         *)
(*                                                                         *)
(* JSON.  A decoded JSON value is a tagged record: Null, Str(s), Num(n),   *)
(* Dict(d) with d a function from keys to values, List(l).                 *)
(***************************************************************************)
EXTENDS Integers, Sequences, FiniteSets, TLC

VARIABLES
    pc,         \* pc[r]: where request r is: idle, token_wait, query_wait, inner_done, done
    req,        \* req[r]: the inbound request: [path, headers]
    calls,      \* calls[r]: the outbound calls r has issued so far, in order
    inflight,   \* inflight[r]: the outbound calls of r that have not returned
    replies,    \* replies[r]: the upstream replies r has received, in order
    clip_info,  \* clip_info[r]: <<>> or <<the dict get_clip_info returned>>
    exc,        \* exc[r]: <<>> or <<the exception get_clip_info raised>>
    inner,      \* inner[r]: <<>> or <<the response call_next returned>>
    fault,      \* fault[r]: <<>> or <<the exception that left handle_clip>>
    resp        \* resp[r]: <<>> or <<the response sent to the client>>

vars == <<pc, req, calls, inflight, replies, clip_info, exc, inner, fault, resp>>

----------------------------------------------------------------------------
(* Bounds of the model.                                                    *)

NumReqs == 2     \* requests in the concurrent specification
MaxLen == 2      \* longest playback token value, in characters
MaxQual == 2     \* longest videoQualities list

Reqs == 1..NumReqs

----------------------------------------------------------------------------
(* JSON values and the Python operations the code applies to them.         *)

Null == [t |-> "null"]
Str(s) == [t |-> "str", s |-> s]
Num(n) == [t |-> "int", n |-> n]
Dict(d) == [t |-> "dict", d |-> d]
List(l) == [t |-> "list", l |-> l]

\* The outcome of an expression: a value, or a raised exception.
Ok(v) == [ok |-> TRUE, val |-> v]
Raise(type, text) == [ok |-> FALSE, exc |-> [type |-> type, text |-> text]]

TypeName(x) ==
    CASE x.t = "null" -> "'NoneType'"
      [] x.t = "int" -> "'int'"
      [] x.t = "list" -> "'list'"
      [] x.t = "dict" -> "'dict'"
      [] x.t = "str" -> "'str'"

\* x[key] for a str key.
GetKey(x, key) ==
    CASE x.t = "dict" ->
            IF key \in DOMAIN x.d THEN Ok(x.d[key])
            ELSE Raise("KeyError", <<"'", key, "'">>)
      [] x.t = "list" ->
            Raise("TypeError", <<"list indices must be integers or slices, not str">>)
      [] x.t = "str" ->
            Raise("TypeError", <<"string indices must be integers">>)
      [] OTHER ->
            Raise("TypeError", <<TypeName(x), " object is not subscriptable">>)

Digit(d) == <<"0", "1", "2", "3", "4", "5", "6", "7", "8", "9">>[d + 1]

RECURSIVE Decimal(_)
\* str(n) for an int n >= 0.
Decimal(n) == IF n < 10 THEN <<Digit(n)>> ELSE Append(Decimal(n \div 10), Digit(n % 10))

\* x[i] for an int i >= 0.
GetIndex(x, i) ==
    CASE x.t = "list" ->
            IF i < Len(x.l) THEN Ok(x.l[i + 1])
            ELSE Raise("IndexError", <<"list index out of range">>)
      [] x.t = "dict" -> Raise("KeyError", Decimal(i))
      [] x.t = "str" ->
            IF i < Len(x.s) THEN Ok(Str(<<x.s[i + 1]>>))
            ELSE Raise("IndexError", <<"string index out of range">>)
      [] OTHER ->
            Raise("TypeError", <<TypeName(x), " object is not subscriptable">>)

\* One subscript: [key |-> "k"] is x["k"], [idx |-> i] is x[i].
Subscript(x, s) == IF "key" \in DOMAIN s THEN GetKey(x, s.key) ELSE GetIndex(x, s.idx)

RECURSIVE Path(_, _)
\* x[s1][s2]...: the first subscript that raises ends the evaluation.
Path(x, steps) ==
    IF steps = <<>> THEN Ok(x)
    ELSE LET first == Subscript(x, Head(steps))
         IN  IF first.ok THEN Path(first.val, Tail(steps)) ELSE first

K(key) == [key |-> key]
I(idx) == [idx |-> idx]

\* f"{x}": the text a value formats to inside an f-string.
Format(x) ==
    CASE x.t = "str" -> x.s
      [] x.t = "int" -> Decimal(x.n)
      [] x.t = "null" -> <<"None">>

----------------------------------------------------------------------------
(* requests.utils.quote is urllib.parse.quote with safe='/': letters,      *)
(* digits and _ . - ~ / stay, every other character becomes %XX (its byte  *)
(* in upper-case hexadecimal).                                             *)

Letters ==
    {"a", "b", "c", "d", "e", "f", "g", "h", "i", "j", "k", "l", "m",
     "n", "o", "p", "q", "r", "s", "t", "u", "v", "w", "x", "y", "z",
     "A", "B", "C", "D", "E", "F", "G", "H", "I", "J", "K", "L", "M",
     "N", "O", "P", "Q", "R", "S", "T", "U", "V", "W", "X", "Y", "Z"}
Digits == {"0", "1", "2", "3", "4", "5", "6", "7", "8", "9"}
AlwaysSafe == Letters \cup Digits \cup {"_", ".", "-", "~"}

\* ord(c) of the other ASCII characters the model uses.
Ord ==
    (" " :> 32) @@ ("\"" :> 34) @@ ("#" :> 35) @@ ("%" :> 37) @@ ("&" :> 38)
    @@ ("+" :> 43) @@ ("," :> 44) @@ ("/" :> 47) @@ (":" :> 58) @@ ("=" :> 61)
    @@ ("?" :> 63) @@ ("{" :> 123) @@ ("}" :> 125)

HexDigit(n) ==
    <<"0", "1", "2", "3", "4", "5", "6", "7", "8", "9", "A", "B", "C", "D", "E", "F">>[n + 1]

QuoteChar(c, safe) ==
    IF c \in AlwaysSafe \cup safe THEN <<c>>
    ELSE <<"%", HexDigit(Ord[c] \div 16), HexDigit(Ord[c] % 16)>>

RECURSIVE QuoteSafe(_, _)
QuoteSafe(s, safe) ==
    IF s = <<>> THEN <<>> ELSE QuoteChar(Head(s), safe) \o QuoteSafe(Tail(s), safe)

\* requests.utils.quote(token)
quote(s) == QuoteSafe(s, {"/"})

----------------------------------------------------------------------------
(* Exceptions.  Every exception the code or its libraries raise here is a  *)
(* subclass of Exception.                                                  *)

ExceptionTypes ==
    {"Exception", "KeyError", "IndexError", "TypeError", "ConnectionError",
     "JSONDecodeError"}

\* isinstance(e, Exception)
IsException(e) == e.type \in ExceptionTypes

\* str(e)
StrExc(e) == e.text

\* The first outcome of a sequence of outcomes that raised, as <<>> or <<outcome>>.
FirstRaised(outcomes) ==
    LET bad == {i \in DOMAIN outcomes : ~outcomes[i].ok}
    IN  IF bad = {} THEN <<>>
        ELSE <<outcomes[CHOOSE i \in bad : \A j \in bad : i <= j]>>

\* response.json(): the decoded body, or JSONDecodeError for a body that is no JSON.
ResponseJson(response) ==
    IF response.json.t = "invalid"
    THEN Raise("JSONDecodeError", <<"Expecting value: line 1 column 1 (char 0)">>)
    ELSE Ok(response.json)

----------------------------------------------------------------------------
(* Configuration and constants of the program.                             *)

TWITCH_CLIENT_ID == "os.getenv('TWITCH_CLIENT_ID')"
TWITCH_CLIENT_SECRET == "os.getenv('TWITCH_CLIENT_SECRET')"
GITHUB_REDIRECT_URL == <<"https://github.com/RoyRiv3r/RoyRiv3r">>

\* The outbound call of fetch_twitch_access_token.
TokenCall ==
    [fn |-> "requests.post",
     url |-> "https://id.twitch.tv/oauth2/token",
     params |-> [client_id |-> TWITCH_CLIENT_ID,
                 client_secret |-> TWITCH_CLIENT_SECRET,
                 grant_type |-> "client_credentials"]]

\* fetch_twitch_access_token, from the return of its requests.post on.
fetch_twitch_access_token(response) ==
    IF response.raises THEN [ok |-> FALSE, exc |-> response.exc]
    ELSE IF response.status_code # 200
    THEN Raise("Exception", <<"Failed to get access token: ">> \o response.text)
    ELSE ResponseJson(response)

\* get_twitch_access_token: the wrapper that returns the token itself.
get_twitch_access_token(response) ==
    LET token_data == fetch_twitch_access_token(response)
    IN  IF token_data.ok THEN GetKey(token_data.val, "access_token") ELSE token_data

\* The payload of the query call: two persisted-query operations for one slug.
Payload(clip_id) ==
    <<[operationName |-> "VideoPlayerStreamInfoOverlayClip",
       variables |-> [slug |-> clip_id],
       sha256Hash |-> "fcefd8b2081e39d16cbdc94bc82142df01b143bb296f0043262c44c37dbd1f63"],
      [operationName |-> "VideoAccessToken_Clip",
       variables |-> [platform |-> "web", slug |-> clip_id],
       sha256Hash |-> "6fd3af2b22989506269b9ac02dd87eb4a6688392d67d94e41a6886f1e9f5c00f"]>>

\* The outbound call of fetch_clip_info_sync, given the access token.
QueryCall(clip_id, access_token) ==
    [fn |-> "requests.post",
     url |-> "https://gql.twitch.tv/gql",
     headers |-> [ClientID |-> "kimne78kx3ncx6brgo4mv6wki5h1ko",
                  Authorization |-> <<"Bearer ">> \o Format(access_token),
                  ContentType |-> "application/json"],
     json |-> Payload(clip_id)]

\* A variant that reads the token with .get: a body without access_token gives
\* None, and the query call is made with it.
fetch_clip_info_sync_token_Get(clip_id, response) ==
    LET access_token_data == fetch_twitch_access_token(response)
    IN  IF ~access_token_data.ok THEN access_token_data
        ELSE IF access_token_data.val.t = "dict"
                /\ "access_token" \in DOMAIN access_token_data.val.d
        THEN Ok(QueryCall(clip_id, access_token_data.val.d.access_token))
        ELSE Ok(QueryCall(clip_id, Null))

\* A variant that keeps the first token fetched in a module-level variable and
\* sends that one with every later query call.
fetch_clip_info_sync_token_Shared(clip_id, response) ==
    LET access_token == get_twitch_access_token(response)
        earlier == {q \in Reqs : Len(calls[q]) >= 2}
    IN  IF ~access_token.ok THEN access_token
        ELSE IF earlier = {} THEN Ok(QueryCall(clip_id, access_token.val))
        ELSE Ok([QueryCall(clip_id, access_token.val) EXCEPT
                    !.headers = calls[CHOOSE q \in earlier : TRUE][2].headers])

\* fetch_clip_info_sync up to its requests.post: the token fetch has returned
\* `response`; the outcome is the query call to issue, or the exception raised.
fetch_clip_info_sync_token(clip_id, response) ==
    LET access_token_data == fetch_twitch_access_token(response)
        access_token == IF access_token_data.ok
                        THEN GetKey(access_token_data.val, "access_token")
                        ELSE access_token_data
    IN  IF access_token.ok THEN Ok(QueryCall(clip_id, access_token.val))
        ELSE access_token

\* The try block of fetch_clip_info_sync: the three lookups, and the except clause
\* that turns IndexError, KeyError and TypeError into "Unexpected response structure".
ParseResponse(response_data) ==
    LET clip_data == Path(response_data, <<I(0), K("data"), K("clip")>>)
        access_data ==
            Path(response_data, <<I(1), K("data"), K("clip"), K("playbackAccessToken")>>)
        video_qualities ==
            Path(response_data, <<I(1), K("data"), K("clip"), K("videoQualities")>>)
        raised == FirstRaised(<<clip_data, access_data, video_qualities>>)
    IN  IF raised = <<>>
        THEN Ok([clip_data |-> clip_data.val,
                 access_data |-> access_data.val,
                 video_qualities |-> video_qualities.val])
        ELSE IF raised[1].exc.type \in {"IndexError", "KeyError", "TypeError"}
        THEN Raise("Exception",
                   <<"Unexpected response structure: ">> \o StrExc(raised[1].exc))
        ELSE raised[1]

\* requests.utils.quote(token) of a JSON value: only a str can be quoted.
QuoteValue(token) ==
    IF token.t = "str" THEN Ok(quote(token.s))
    ELSE Raise("TypeError", <<"quote_from_bytes() expected bytes">>)

\* A variant that takes the last entry.
SelectedQuality_Last(video_qualities) ==
    IF video_qualities.t = "list" /\ video_qualities.l # <<>>
    THEN GetIndex(video_qualities, Len(video_qualities.l) - 1)
    ELSE GetIndex(video_qualities, 0)

\* Which entry of video_qualities the code takes: "Select the first available".
SelectedQuality(video_qualities) == GetIndex(video_qualities, 0)

\* The rest of fetch_clip_info_sync, after the try block: the playable URL and
\* the clip_info dict.  Statements are evaluated in the order of the source and
\* the first exception leaves the function.
BuildClipInfo(clip_data, access_data, video_qualities) ==
    LET signature == GetKey(access_data, "signature")
        token == GetKey(access_data, "value")
        quality == SelectedQuality(video_qualities)
        video_url == IF quality.ok THEN GetKey(quality.val, "sourceURL") ELSE quality
        quoted == IF token.ok THEN QuoteValue(token.val) ELSE token
        broadcaster == GetKey(clip_data, "broadcaster")
        broadcaster_name == IF broadcaster.ok
                            THEN GetKey(broadcaster.val, "displayName") ELSE broadcaster
        title == GetKey(clip_data, "title")
        slug == GetKey(clip_data, "slug")
        view_count == GetKey(clip_data, "viewCount")
        creator_name == IF broadcaster.ok
                        THEN GetKey(broadcaster.val, "login") ELSE broadcaster
        raised == FirstRaised(<<signature, token, video_url, quoted, broadcaster_name,
                                title, slug, view_count, creator_name>>)
    IN  IF raised # <<>> THEN raised[1]
        ELSE Ok([broadcaster_name |-> broadcaster_name.val,
                 title |-> title.val,
                 url |-> Str(<<"https://clips.twitch.tv/">> \o Format(slug.val)),
                 view_count |-> view_count.val,
                 creator_name |-> creator_name.val,
                 thumbnail_url |->
                     Str(<<"https://clips-media-assets2.twitch.tv/">> \o Format(slug.val)
                         \o <<"-preview-480x272.jpg">>),
                 video_url |->
                     Str(Format(video_url.val) \o <<"?sig=">> \o Format(signature.val)
                         \o <<"&token=">> \o quoted.val)])

\* fetch_clip_info_sync from the return of its requests.post on: the clip_info
\* dict, or the exception raised.
fetch_clip_info_sync_parse(response) ==
    IF response.raises THEN [ok |-> FALSE, exc |-> response.exc]
    ELSE IF response.status_code # 200
    THEN Raise("Exception", <<"Failed to get clip info: ">> \o response.text)
    ELSE LET response_data == ResponseJson(response)
             parsed == IF response_data.ok THEN ParseResponse(response_data.val)
                       ELSE response_data
         IN  IF parsed.ok
             THEN BuildClipInfo(parsed.val.clip_data, parsed.val.access_data,
                                parsed.val.video_qualities)
             ELSE parsed

----------------------------------------------------------------------------
(* handle_clip: classification of the client and the shape of the response. *)

UpperCase ==
    <<"A", "B", "C", "D", "E", "F", "G", "H", "I", "J", "K", "L", "M",
      "N", "O", "P", "Q", "R", "S", "T", "U", "V", "W", "X", "Y", "Z">>
LowerCase ==
    <<"a", "b", "c", "d", "e", "f", "g", "h", "i", "j", "k", "l", "m",
      "n", "o", "p", "q", "r", "s", "t", "u", "v", "w", "x", "y", "z">>

\* str.lower(), one character at a time.
LowerChar(c) ==
    IF \E i \in DOMAIN UpperCase : UpperCase[i] = c
    THEN LowerCase[CHOOSE i \in DOMAIN UpperCase : UpperCase[i] = c]
    ELSE c

\* A variant that compares the user agent as it was sent.
lower_AsSent(s) == s

lower(s) == [i \in DOMAIN s |-> LowerChar(s[i])]

\* needle in hay, for two str.
Contains(hay, needle) ==
    \E i \in 0..(Len(hay) - Len(needle)) : SubSeq(hay, i + 1, i + Len(needle)) = needle

bot_agents ==
    << <<"b", "o", "t">>,
       <<"c", "r", "a", "w", "l", "e", "r">>,
       <<"s", "p", "i", "d", "e", "r">>,
       <<"s", "l", "u", "r", "p">>,
       <<"f", "a", "c", "e", "b", "o", "o", "k", "e", "x", "t", "e", "r", "n", "a", "l",
         "h", "i", "t">>,
       <<"w", "h", "a", "t", "s", "a", "p", "p">> >>

\* request.headers.get("user-agent", "")
HeaderGet(headers, name, default) ==
    IF name \in DOMAIN headers THEN headers[name] ELSE default

\* The user_agent of handle_clip: the header, lower-cased.
UserAgentOf(headers) == lower(HeaderGet(headers, "user-agent", <<>>))

\* is_bot = any(agent in user_agent for agent in bot_agents)
is_bot(headers) ==
    LET user_agent == UserAgentOf(headers)
    IN  \E a \in DOMAIN bot_agents : Contains(user_agent, bot_agents[a])

\* The opening of a <meta> tag of the template, up to the quote that opens its content.
MetaOpen(attr, name) == <<"<meta ", attr, "=\"", name, "\" content=\"">>

\* html_content: the f-string of handle_clip.  The emoji of og:site_name is
\* written as its escapes.
html_content(clip_info_, video_url) ==
    <<"\n            <html>\n            <head>\n                ",
      "<meta charset=\"utf-8\">\n                ">>
    \o MetaOpen("name", "theme-color") \o <<"#6441a5", "\"", ">\n                ">>
    \o MetaOpen("property", "og:title")
    \o Format(clip_info_.broadcaster_name) \o <<" - ">> \o Format(clip_info_.title)
    \o <<"\"", ">\n                ">>
    \o MetaOpen("property", "og:type") \o <<"video", "\"", ">\n                ">>
    \o MetaOpen("property", "og:site_name")
    \o <<"\\U0001F441\\uFE0F Views: ">> \o Format(clip_info_.view_count)
    \o <<" | ">> \o Format(clip_info_.creator_name)
    \o <<"\"", ">\n                ">>
    \o MetaOpen("property", "og:url") \o Format(clip_info_.url)
    \o <<"\"", ">\n                ">>
    \o MetaOpen("property", "og:video") \o video_url
    \o <<"\"", ">\n                ">>
    \o MetaOpen("property", "og:video:secure_url") \o video_url
    \o <<"\"", ">\n                ">>
    \o MetaOpen("property", "og:video:type") \o <<"video/mp4", "\"", ">\n                ">>
    \o MetaOpen("property", "og:image") \o Format(clip_info_.thumbnail_url)
    \o <<"\"", ">\n            </head>\n            <body>\n                ",
         "<p>This page contains metadata for bots.</p>\n            </body>\n",
         "            </html>\n            ">>

HTMLResponse(content, status_code) ==
    [class |-> "HTMLResponse", status_code |-> status_code,
     media_type |-> "text/html", content |-> content]

RedirectResponse(url, status_code) ==
    [class |-> "RedirectResponse", status_code |-> status_code, location |-> url]

PlainTextResponse(content, status_code) ==
    [class |-> "PlainTextResponse", status_code |-> status_code,
     media_type |-> "text/plain", content |-> content]

\* A variant that takes the page of the clip for the video.
VideoUrlOf_Page(clip_info_) == Format(clip_info_.url)

\* The value handle_clip puts into the tags and the redirect: clip_info['video_url'].
VideoUrlOf(clip_info_) == Format(clip_info_.video_url)

\* A variant that catches the errors of requests only.
Caught_RequestsOnly(e) == e.type \in {"ConnectionError", "JSONDecodeError"}

\* The exceptions the except clause of handle_clip catches: `except Exception`.
Caught(e) == IsException(e)

\* A variant that puts the URL of the clip's page into the video tags of the
\* document, and still redirects to the video.
handle_clip_PageInTags(result, headers) ==
    IF result.ok
    THEN LET video_url == VideoUrlOf(result.val)
         IN  IF is_bot(headers)
             THEN Ok(HTMLResponse(html_content(result.val, Format(result.val.url)), 200))
             ELSE Ok(RedirectResponse(video_url, 301))
    ELSE IF Caught(result.exc)
    THEN Ok(PlainTextResponse(<<"Error: ">> \o StrExc(result.exc), 500))
    ELSE result

\* handle_clip from the return of get_clip_info on: `result` is the clip_info
\* dict or the exception raised.  The outcome is the response, or the exception
\* that leaves the handler.
handle_clip(result, headers) ==
    IF result.ok
    THEN LET video_url == VideoUrlOf(result.val)
         IN  IF is_bot(headers)
             THEN Ok(HTMLResponse(html_content(result.val, video_url), 200))
             ELSE Ok(RedirectResponse(video_url, 301))
    ELSE IF Caught(result.exc)
    THEN Ok(PlainTextResponse(<<"Error: ">> \o StrExc(result.exc), 500))
    ELSE result

\* root(): the redirect to the repository.
root == RedirectResponse(GITHUB_REDIRECT_URL, 301)

----------------------------------------------------------------------------
(* The framework around the handlers: routing, and the middleware.         *)

\* The route a path (its segments) matches: "/" is root, "/clip/{clip_id}" is
\* handle_clip, anything else matches nothing.
Route(path) ==
    CASE path = <<>> -> "root"
      [] Len(path) = 2 /\ path[1] = <<"clip">> -> "clip"
      [] OTHER -> "none"

\* What call_next returns for a path that matches no route: the framework's own
\* not-found response.
FrameworkNotFound ==
    [class |-> "JSONResponse", status_code |-> 404,
     media_type |-> "application/json", content |-> <<"{\"detail\":\"Not Found\"}">>]

\* What the server sends when an exception leaves the application.
FrameworkServerError ==
    [class |-> "PlainTextResponse", status_code |-> 500,
     media_type |-> "text/plain", content |-> <<"Internal Server Error">>]

\* A variant that replaces every error response.
catch_not_found_AnyError(response) ==
    IF response.status_code >= 400
    THEN [class |-> "PlainTextResponse", status_code |-> 404,
          media_type |-> "text/plain", content |-> <<"Not Found">>]
    ELSE response

\* catch_not_found, from the return of call_next on.
catch_not_found(response) ==
    IF response.status_code = 404
    THEN PlainTextResponse(<<"Not Found">>, 404)
    ELSE response

----------------------------------------------------------------------------
(* The environment: inbound requests and upstream replies.                 *)

ClipIds == {<<"a">>, <<"b">>}

Paths == {<<>>, << <<"nope">> >>} \cup {<< <<"clip">>, id >> : id \in ClipIds}

Host == <<"f", "x">>

\* Headers without a user agent, and with one.
Headers(agents) ==
    {[host |-> Host]} \cup {("host" :> Host) @@ ("user-agent" :> ua) : ua \in agents}

\* All texts over an alphabet, of length lo..hi.
Texts(alphabet, lo, hi) == UNION {[1..n -> alphabet] : n \in lo..hi}

\* A reply of an upstream: the call raised, or returned a status with a body.
Failed(text) ==
    [raises |-> TRUE, exc |-> [type |-> "ConnectionError", text |-> text]]
Status(code, text) == [raises |-> FALSE, status_code |-> code, text |-> text]
Json(value) == [raises |-> FALSE, status_code |-> 200, json |-> value]

NotJson == [t |-> "invalid"]

AccessTokens == {<<"t", "1">>, <<"t", "2">>}

TokenBody(access_token) ==
    Dict([access_token |-> Str(access_token), expires_in |-> Num(5000),
          token_type |-> Str(<<"bearer">>)])

\* A few replies of the token endpoint: a refusal, a body without the token,
\* and a token.
TokenRepliesFew ==
    {Status(400, <<"{\"status\":400,\"message\":\"invalid client\"}">>),
     Json(Dict([expires_in |-> Num(5000), token_type |-> Str(<<"bearer">>)]))}
    \cup {Json(TokenBody(t)) : t \in AccessTokens}

\* The replies of the token endpoint, as far as they differ for one request:
\* the call raises, a refusal, a body that is no JSON, a body without the
\* token, a token.
TokenReplies ==
    {Failed(<<"Connection refused">>),
     Status(400, <<"{\"status\":400,\"message\":\"invalid client\"}">>),
     Json(NotJson),
     Json(Dict([expires_in |-> Num(5000), token_type |-> Str(<<"bearer">>)])),
     Json(TokenBody(<<"t", "1">>))}


\* The result of operation A (VideoPlayerStreamInfoOverlayClip) for a clip.
ClipNode(m) ==
    Dict([broadcaster |-> Dict([displayName |-> Str(m.displayName), login |-> Str(m.login)]),
          title |-> Str(m.title), slug |-> Str(m.slug), viewCount |-> Num(m.viewCount)])

\* The result of operation B (VideoAccessToken_Clip) for a clip.
PlaybackNode(signature, value, urls) ==
    Dict([playbackAccessToken |-> Dict([signature |-> Str(signature), value |-> Str(value)]),
          videoQualities |->
              List([i \in DOMAIN urls |->
                       Dict([sourceURL |-> Str(urls[i]), frameRate |-> Num(30)])])])

Operation(clip) == Dict([data |-> Dict([clip |-> clip])])

Batch(clipA, clipB) == List(<<Operation(clipA), Operation(clipB)>>)

\* d without one of its keys.
Without(x, key) == Dict([k \in DOMAIN x.d \ {key} |-> x.d[k]])
\* d with one of its values replaced.
With(x, key, v) == Dict([x.d EXCEPT ![key] = v])

Metas ==
    {[displayName |-> <<"S", "t">>, login |-> <<"s", "t">>, title |-> <<"G", "G">>,
      slug |-> <<"a">>, viewCount |-> 12],
     [displayName |-> <<"X">>, login |-> <<"x">>, title |-> <<"\"", "!">>,
      slug |-> <<"b">>, viewCount |-> 0]}

Signatures == {<<"a", "1">>, <<"f">>}

\* Characters of a playback token value: one that quote keeps, its safe "/",
\* and two it must encode.
TokenChars == {"a", "/", "\"", "%"}
TokenValues == Texts(TokenChars, 0, MaxLen)

\* Source URLs (URL characters only), and the lists of them, the empty one included.
SourceURLs == {<<"h", "/", "1">>, <<"h", "/", "2">>}
QualityLists == Texts(SourceURLs, 0, MaxQual)

\* The bodies of a query reply that have every field the code reads (an empty
\* videoQualities list included).
WholeBodies ==
    {Batch(ClipNode(m), PlaybackNode(sig, v, urls)) :
        m \in Metas, sig \in Signatures, v \in TokenValues, urls \in QualityLists}

SampleMeta == CHOOSE m \in Metas : m.viewCount = 12
SampleClip == ClipNode(SampleMeta)
SamplePlayback == PlaybackNode(<<"a", "1">>, <<"a", "\"">>, << <<"h", "/", "1">> >>)

\* Bodies that lack something: a deleted clip, a missing or null field, a
\* shorter batch, a body that is no batch at all.
BrokenBodies ==
    {Null,
     Dict([error |-> Str(<<"e">>)]),
     List(<<>>),
     List(<<Operation(SampleClip)>>),
     List(<<Dict([errors |-> List(<<>>)]), Operation(SamplePlayback)>>),
     List(<<Operation(SampleClip), Dict([errors |-> List(<<>>)])>>),
     Batch(Null, Null),
     Batch(Null, SamplePlayback),
     Batch(SampleClip, Null),
     List(<<Dict([data |-> Dict(<<>>)]), Operation(SamplePlayback)>>),
     Batch(SampleClip, Without(SamplePlayback, "playbackAccessToken")),
     Batch(SampleClip, With(SamplePlayback, "playbackAccessToken", Null)),
     Batch(SampleClip, Without(SamplePlayback, "videoQualities")),
     Batch(SampleClip, With(SamplePlayback, "videoQualities", Null)),
     Batch(SampleClip,
           With(SamplePlayback, "playbackAccessToken",
                Without(SamplePlayback.d.playbackAccessToken, "signature"))),
     Batch(SampleClip,
           With(SamplePlayback, "playbackAccessToken",
                Without(SamplePlayback.d.playbackAccessToken, "value"))),
     Batch(SampleClip,
           With(SamplePlayback, "videoQualities", List(<<Dict([frameRate |-> Num(30)])>>))),
     Batch(Without(SampleClip, "broadcaster"), SamplePlayback),
     Batch(With(SampleClip, "broadcaster", Null), SamplePlayback),
     Batch(Without(SampleClip, "title"), SamplePlayback),
     Batch(Without(SampleClip, "slug"), SamplePlayback),
     Batch(Without(SampleClip, "viewCount"), SamplePlayback)}

QueryFailures ==
    {Failed(<<"Connection reset">>),
     Status(500, <<"service error">>),
     Json(NotJson)}

\* The replies of the query endpoint.
QueryReplies == QueryFailures \cup {Json(b) : b \in WholeBodies \cup BrokenBodies}

\* A few of them: a failure and a clip.
QueryRepliesFew ==
    {Status(500, <<"service error">>),
     Json(Batch(SampleClip, SamplePlayback))}

----------------------------------------------------------------------------
(* The state machine.  A request is received, and, on the clip route, waits *)
(* for the token endpoint and then for the query endpoint; the response of  *)
(* the route goes back through the middleware.  Requests interleave at the  *)
(* two outbound calls, as they do between the workers of a deployment; one  *)
(* event loop alone runs each handle_clip to its end, since requests.post   *)
(* blocks, and its runs are among the interleavings here.                   *)

Init ==
    /\ pc = [r \in Reqs |-> "idle"]
    /\ req = [r \in Reqs |-> <<>>]
    /\ calls = [r \in Reqs |-> <<>>]
    /\ inflight = [r \in Reqs |-> {}]
    /\ replies = [r \in Reqs |-> <<>>]
    /\ clip_info = [r \in Reqs |-> <<>>]
    /\ exc = [r \in Reqs |-> <<>>]
    /\ inner = [r \in Reqs |-> <<>>]
    /\ fault = [r \in Reqs |-> <<>>]
    /\ resp = [r \in Reqs |-> <<>>]

\* The clip_id of a request on the clip route.
ClipIdOf(request) == request.path[2]

\* handle_clip has `result` from get_clip_info: its response goes to the
\* middleware, or its exception leaves the application.
Handled(r, result) ==
    LET out == handle_clip(result, req[r][1].headers)
    IN  /\ clip_info' = [clip_info EXCEPT ![r] = IF result.ok THEN <<result.val>> ELSE <<>>]
        /\ exc' = [exc EXCEPT ![r] = IF result.ok THEN <<>> ELSE <<result.exc>>]
        /\ inner' = [inner EXCEPT ![r] = IF out.ok THEN <<out.val>> ELSE <<>>]
        /\ fault' = [fault EXCEPT ![r] = IF out.ok THEN <<>> ELSE <<out.exc>>]
        /\ pc' = [pc EXCEPT ![r] = "inner_done"]

\* A request arrives: the middleware calls call_next, the router dispatches.
\* root() and an unmatched path return at once; handle_clip runs up to the
\* requests.post of fetch_twitch_access_token.
Receive(r, path, headers) ==
    /\ pc[r] = "idle"
    /\ req' = [req EXCEPT ![r] = <<[path |-> path, headers |-> headers]>>]
    /\ IF Route(path) = "clip"
       THEN /\ calls' = [calls EXCEPT ![r] = Append(@, TokenCall)]
            /\ inflight' = [inflight EXCEPT ![r] = @ \cup {Len(calls[r]) + 1}]
            /\ pc' = [pc EXCEPT ![r] = "token_wait"]
            /\ UNCHANGED inner
       ELSE /\ inner' = [inner EXCEPT ![r] =
                            IF Route(path) = "root" THEN <<root>> ELSE <<FrameworkNotFound>>]
            /\ pc' = [pc EXCEPT ![r] = "inner_done"]
            /\ UNCHANGED <<calls, inflight>>
    /\ UNCHANGED <<replies, clip_info, exc, fault, resp>>

\* The token endpoint replies: fetch_clip_info_sync goes on to its own
\* requests.post, or an exception takes it to the except clause of handle_clip.
TokenReturn(r, response) ==
    /\ pc[r] = "token_wait"
    /\ replies' = [replies EXCEPT ![r] = Append(@, response)]
    /\ LET next == fetch_clip_info_sync_token(ClipIdOf(req[r][1]), response)
       IN  IF next.ok
           THEN /\ calls' = [calls EXCEPT ![r] = Append(@, next.val)]
                /\ inflight' = [inflight EXCEPT ![r] = (@ \ {Len(calls[r])})
                                                        \cup {Len(calls[r]) + 1}]
                /\ pc' = [pc EXCEPT ![r] = "query_wait"]
                /\ UNCHANGED <<clip_info, exc, inner, fault>>
           ELSE /\ inflight' = [inflight EXCEPT ![r] = @ \ {Len(calls[r])}]
                /\ Handled(r, next)
                /\ UNCHANGED calls
    /\ UNCHANGED <<req, resp>>

\* The query endpoint replies: the rest of fetch_clip_info_sync and of handle_clip.
QueryReturn(r, response) ==
    /\ pc[r] = "query_wait"
    /\ replies' = [replies EXCEPT ![r] = Append(@, response)]
    /\ inflight' = [inflight EXCEPT ![r] = @ \ {Len(calls[r])}]
    /\ Handled(r, fetch_clip_info_sync_parse(response))
    /\ UNCHANGED <<req, calls, resp>>

\* call_next has returned to catch_not_found (or raised through it).
Middleware(r) ==
    /\ pc[r] = "inner_done"
    /\ resp' = [resp EXCEPT ![r] =
                   IF fault[r] # <<>> THEN <<FrameworkServerError>>
                   ELSE <<catch_not_found(inner[r][1])>>]
    /\ pc' = [pc EXCEPT ![r] = "done"]
    /\ UNCHANGED <<req, calls, inflight, replies, clip_info, exc, inner, fault>>

\* User agents of the concurrent specification: a browser and a crawler.
FewAgents == {<<"M", "o", "z">>, <<"B", "o", "t">>}

\* Concurrent requests, with a few upstream replies.
Next ==
    \E r \in Reqs :
        \/ \E path \in Paths, ua \in FewAgents :
               Receive(r, path, ("host" :> Host) @@ ("user-agent" :> ua))
        \/ \E response \in TokenRepliesFew : TokenReturn(r, response)
        \/ \E response \in QueryRepliesFew : QueryReturn(r, response)
        \/ Middleware(r)

Spec == Init /\ [][Next]_vars

\* One request, with every upstream reply of the model.
NextResolve ==
    \/ \E path \in Paths, headers \in Headers(FewAgents) : Receive(1, path, headers)
    \/ \E response \in TokenReplies : TokenReturn(1, response)
    \/ \E response \in QueryReplies : QueryReturn(1, response)
    \/ Middleware(1)

SpecResolve == Init /\ [][NextResolve]_vars


\* User agents of the classification specification: words that are markers,
\* that contain one, or that come close, in three spellings, alone or inside
\* a longer user agent.
AgentWords ==
    {<<"b", "o", "t">>, <<"c", "r", "a", "w", "l", "e", "r">>,
     <<"s", "p", "i", "d", "e", "r">>, <<"s", "l", "u", "r", "p">>,
     <<"f", "a", "c", "e", "b", "o", "o", "k", "e", "x", "t", "e", "r", "n", "a", "l",
       "h", "i", "t">>,
     <<"w", "h", "a", "t", "s", "a", "p", "p">>,
     <<"g", "o", "o", "g", "l", "e", "b", "o", "t">>,
     <<"b", "o">>, <<"b", "0", "t">>, <<"b", "-", "o", "t">>,
     <<"c", "r", "a", "w", "l">>, <<"s", "p", "y", "d", "e", "r">>,
     <<"s", "l", "u", "r">>, <<"f", "a", "c", "e", "b", "o", "o", "k">>,
     <<"w", "h", "a", "t", "s", "a", "p">>, <<"c", "u", "r", "l">>}

\* c in upper case.
UpperChar(c) ==
    IF \E i \in DOMAIN LowerCase : LowerCase[i] = c
    THEN UpperCase[CHOOSE i \in DOMAIN LowerCase : LowerCase[i] = c]
    ELSE c

Spellings(w) ==
    {w, [i \in DOMAIN w |-> UpperChar(w[i])],
     [i \in DOMAIN w |-> IF i % 2 = 1 THEN UpperChar(w[i]) ELSE w[i]]}

UserAgents ==
    {pre \o w \o suf :
        pre \in {<<>>, <<"M", "o", "z", "/", "5", " ">>},
        w \in UNION {Spellings(word) : word \in AgentWords},
        suf \in {<<>>, <<"/", "2", ".", "1">>}}

\* One request on the clip route, with every user agent of the model.
NextClassify ==
    \/ \E id \in ClipIds, headers \in Headers(UserAgents) :
           Receive(1, << <<"clip">>, id >>, headers)
    \/ \E response \in TokenRepliesFew : TokenReturn(1, response)
    \/ \E response \in QueryRepliesFew : QueryReturn(1, response)
    \/ Middleware(1)

SpecClassify == Init /\ [][NextClassify]_vars

----------------------------------------------------------------------------
(* Reading the state, for the statements below.  <<>> stands for "not     *)
(* there": a missing key, a null, a body that is no JSON.                  *)

Field(x, key) ==
    IF x # <<>> /\ x[1].t = "dict" /\ key \in DOMAIN x[1].d /\ x[1].d[key].t # "null"
    THEN <<x[1].d[key]>> ELSE <<>>

Item(x, n) ==
    IF x # <<>> /\ x[1].t = "list" /\ n <= Len(x[1].l) /\ x[1].l[n].t # "null"
    THEN <<x[1].l[n]>> ELSE <<>>

Returned(reply) == ~reply.raises
Succeeded(reply) == ~reply.raises /\ reply.status_code = 200
BodyOf(reply) ==
    IF Succeeded(reply) /\ reply.json.t # "invalid" THEN <<reply.json>> ELSE <<>>

TokenOf(reply) == Field(BodyOf(reply), "access_token")
ClipA(reply) == Field(Field(Item(BodyOf(reply), 1), "data"), "clip")
ClipB(reply) == Field(Field(Item(BodyOf(reply), 2), "data"), "clip")
PlaybackOf(reply) == Field(ClipB(reply), "playbackAccessToken")
QualitiesOf(reply) == Field(ClipB(reply), "videoQualities")
NoQuality(reply) == QualitiesOf(reply) = <<>> \/ QualitiesOf(reply)[1] = List(<<>>)

OnClipRoute(r) == req[r] # <<>> /\ Route(req[r][1].path) = "clip"
Answered(r) == pc[r] = "done"
HasTokenReply(r) == Len(replies[r]) >= 1
HasQueryReply(r) == Len(replies[r]) = 2
TokenReply(r) == replies[r][1]
QueryReply(r) == replies[r][2]
\* get_clip_info returned a clip_info to handle_clip.
Resolved(r) == clip_info[r] # <<>>
AgentOf(r) == HeaderGet(req[r][1].headers, "user-agent", <<>>)

\* The failures of a resolution: at the token endpoint, or at the query endpoint.
TokenFailed(r) == HasTokenReply(r) /\ TokenOf(TokenReply(r)) = <<>>
QueryFailed(r) ==
    /\ HasQueryReply(r)
    /\ \/ ~Succeeded(QueryReply(r))
       \/ ClipA(QueryReply(r)) = <<>>
       \/ ClipB(QueryReply(r)) = <<>>
       \/ PlaybackOf(QueryReply(r)) = <<>>
       \/ NoQuality(QueryReply(r))

ErrorBody(e) == <<"Error: ">> \o e.text

----------------------------------------------------------------------------
\* C1: a clip request whose resolution fails (at the token endpoint: the call
\* raises, a status other than 200, a body without access_token; at the query
\* endpoint: the call raises, a status other than 200, no clip, no playback
\* token, no quality) is answered with a plain-text 500 whose body is "Error: "
\* and the text of the error; no exception leaves handle_clip, and a clip
\* request is answered with 200, 301 or 500 only.
C1_FailureIsAnswered500 ==
    \A r \in Reqs :
        OnClipRoute(r) =>
            /\ fault[r] = <<>>
            /\ Answered(r) =>
                /\ resp[r][1].status_code \in {200, 301, 500}
                /\ (TokenFailed(r) \/ QueryFailed(r)) =>
                    /\ exc[r] # <<>>
                    /\ resp[r][1].class = "PlainTextResponse"
                    /\ resp[r][1].media_type = "text/plain"
                    /\ resp[r][1].status_code = 500
                    /\ resp[r][1].content = ErrorBody(exc[r][1])

\* A request answered after a query reply with an empty quality list.
C1_Witness ==
    \E r \in Reqs :
        /\ Answered(r) /\ HasQueryReply(r) /\ Succeeded(QueryReply(r))
        /\ QualitiesOf(QueryReply(r)) = <<List(<<>>)>>
        /\ resp[r][1].status_code = 500

\* The content of the first <meta property=name content="..."> of a document:
\* what stands between the quote that opens it and the next quote.
MetaContent(doc, name) ==
    LET opener == <<"<meta ", "property", "=\"", name, "\" content=\"">>
        n == Len(opener)
        starts == {i \in 1..(Len(doc) - n + 1) : SubSeq(doc, i, i + n - 1) = opener}
        from == (CHOOSE i \in starts : \A j \in starts : i <= j) + n
        ends == {j \in from..Len(doc) : doc[j] = "\""}
    IN  IF starts = {} \/ ends = {} THEN <<>>
        ELSE <<SubSeq(doc, from, (CHOOSE j \in ends : \A k \in ends : j <= k) - 1)>>

\* C2: a resolved clip request of an automated client is answered with status
\* 200 and an HTML document whose og:video and og:video:secure_url contents
\* both are the video_url of the clip_info, query parameters included.
C2_CrawlerGetsVideoUrlInTags ==
    \A r \in Reqs :
        (Answered(r) /\ Resolved(r) /\ is_bot(req[r][1].headers)) =>
            /\ resp[r][1].class = "HTMLResponse"
            /\ resp[r][1].status_code = 200
            /\ MetaContent(resp[r][1].content, "og:video") = <<clip_info[r][1].video_url.s>>
            /\ MetaContent(resp[r][1].content, "og:video:secure_url")
                   = <<clip_info[r][1].video_url.s>>

\* A crawler answered with a document whose video URL carries an encoded token.
C2_Witness ==
    \E r \in Reqs :
        /\ Answered(r) /\ Resolved(r) /\ is_bot(req[r][1].headers)
        /\ resp[r][1].status_code = 200
        /\ \E i \in DOMAIN clip_info[r][1].video_url.s : clip_info[r][1].video_url.s[i] = "%"

\* C3: a resolved clip request of a client that is not automated (one without
\* a user-agent header included) is answered with a 301 redirect to exactly the
\* video_url of the clip_info, and with no document.
C3_VisitorIsRedirectedToVideoUrl ==
    \A r \in Reqs :
        (Answered(r) /\ Resolved(r) /\ ~is_bot(req[r][1].headers)) =>
            /\ resp[r][1].class = "RedirectResponse"
            /\ resp[r][1].status_code = 301
            /\ resp[r][1].location = clip_info[r][1].video_url.s
            /\ "content" \notin DOMAIN resp[r][1]

\* A request without a user-agent header, redirected.
C3_Witness ==
    \E r \in Reqs :
        /\ Answered(r) /\ Resolved(r)
        /\ "user-agent" \notin DOMAIN req[r][1].headers
        /\ resp[r][1].status_code = 301


IsTokenCall(call) == call.url = "https://id.twitch.tv/oauth2/token"
IsQueryCall(call) == call.url = "https://gql.twitch.tv/gql"

\* C4: every resolution makes its own token call, and its query call carries
\* the token of its own token reply and its own clip id; two answered requests
\* with the same path, the same headers and the same upstream replies have made
\* the same calls and got the same response, whatever else was going on.
C4_RequestsShareNothing ==
    /\ \A r \in Reqs :
          /\ (OnClipRoute(r) /\ Answered(r)) => (calls[r] # <<>> /\ IsTokenCall(calls[r][1]))
          /\ Len(calls[r]) >= 2 =>
                /\ TokenOf(TokenReply(r)) # <<>>
                /\ calls[r][2].headers.Authorization
                       = <<"Bearer ">> \o TokenOf(TokenReply(r))[1].s
                /\ \A i \in DOMAIN calls[r][2].json :
                       calls[r][2].json[i].variables.slug = req[r][1].path[2]
    /\ \A r1, r2 \in Reqs :
          (Answered(r1) /\ Answered(r2) /\ req[r1] = req[r2] /\ replies[r1] = replies[r2]) =>
              (calls[r1] = calls[r2] /\ resp[r1] = resp[r2])

\* Two requests in flight at once with different tokens, both past their token reply.
C4_Witness ==
    \E r1, r2 \in Reqs :
        /\ pc[r1] = "query_wait" /\ pc[r2] = "query_wait"
        /\ calls[r1][2].headers.Authorization # calls[r2][2].headers.Authorization

\* C5: the outbound calls of a request are none, <token> or <token, query>; at
\* most one of them is in flight; the query call is made only once the token
\* call has returned a token; an answered clip request has made the token call
\* alone exactly when the token reply had no token, and nothing is called twice.
C5_TokenThenQueryNoRetry ==
    \A r \in Reqs :
        /\ Len(calls[r]) <= 2
        /\ Len(calls[r]) >= 1 => IsTokenCall(calls[r][1])
        /\ Len(calls[r]) = 2 =>
              /\ IsQueryCall(calls[r][2])
              /\ HasTokenReply(r) /\ TokenOf(TokenReply(r)) # <<>>
              /\ 1 \notin inflight[r]
        /\ Cardinality(inflight[r]) <= 1
        /\ Len(replies[r]) + Cardinality(inflight[r]) = Len(calls[r])
        /\ (Answered(r) /\ OnClipRoute(r)) =>
              /\ inflight[r] = {}
              /\ TokenOf(TokenReply(r)) = <<>> <=> Len(calls[r]) = 1
              /\ TokenOf(TokenReply(r)) # <<>> <=> Len(calls[r]) = 2

\* A request answered after a failed query call, and one after a token reply
\* without a token.
C5_Witness ==
    /\ \E r \in Reqs :
          Answered(r) /\ HasQueryReply(r) /\ ~Succeeded(QueryReply(r)) /\ Len(calls[r]) = 2
    /\ \E r \in Reqs :
          Answered(r) /\ Len(calls[r]) = 1 /\ BodyOf(TokenReply(r)) # <<>>

\* C6: fetch_twitch_access_token fails with the token-exchange error ("Failed
\* to get access token") when the token endpoint answers with a status other
\* than 200 and when it answers 200 with a body without access_token: it does
\* not return, and the error get_clip_info raises is that one.
C6_AsClaimed ==
    \A r \in Reqs :
        (HasTokenReply(r) /\ Returned(TokenReply(r)) /\ pc[r] # "token_wait"
         /\ (~Succeeded(TokenReply(r))
             \/ (BodyOf(TokenReply(r)) # <<>> /\ TokenOf(TokenReply(r)) = <<>>))) =>
            /\ ~fetch_twitch_access_token(TokenReply(r)).ok
            /\ exc[r] # <<>>
            /\ exc[r][1].type = "Exception"
            /\ exc[r][1].text[1] = "Failed to get access token: "

\* C7: fetch_clip_info_sync fails with the protocol error ("Failed to get clip
\* info") when the query call returns a status other than 200, and with one and
\* the same shape error ("Unexpected response structure"), distinct from the
\* protocol error, when the reply is a 200 whose result has no clip, no playback
\* token or an empty quality list.
C7_AsClaimed ==
    \A r \in Reqs :
        (HasQueryReply(r) /\ Returned(QueryReply(r))) =>
            /\ ~Succeeded(QueryReply(r)) =>
                  /\ exc[r] # <<>>
                  /\ exc[r][1].type = "Exception"
                  /\ exc[r][1].text[1] = "Failed to get clip info: "
            /\ (/\ BodyOf(QueryReply(r)) # <<>>
                /\ \/ ClipA(QueryReply(r)) = <<>>
                   \/ ClipB(QueryReply(r)) = <<>>
                   \/ PlaybackOf(QueryReply(r)) = <<>>
                   \/ QualitiesOf(QueryReply(r)) = <<List(<<>>)>>) =>
                  /\ exc[r] # <<>>
                  /\ exc[r][1].type = "Exception"
                  /\ exc[r][1].text[1] = "Unexpected response structure: "


\* The value of a hexadecimal digit, 16 for anything else.
HexValue(c) ==
    LET hex == <<"0", "1", "2", "3", "4", "5", "6", "7", "8", "9",
                 "A", "B", "C", "D", "E", "F">>
    IN  IF \E i \in DOMAIN hex : hex[i] = c
        THEN (CHOOSE i \in DOMAIN hex : hex[i] = c) - 1 ELSE 16

RECURSIVE PercentDecoded(_)
\* What a percent-encoded text stands for, as <<text>>; <<>> if it is not one
\* (a character that may not stand in a query value, a % without its two digits).
PercentDecoded(s) ==
    IF s = <<>> THEN << <<>> >>
    ELSE IF s[1] = "%"
    THEN IF Len(s) >= 3 /\ HexValue(s[2]) < 16 /\ HexValue(s[3]) < 16
            /\ \E c \in DOMAIN Ord : Ord[c] = 16 * HexValue(s[2]) + HexValue(s[3])
         THEN LET rest == PercentDecoded(SubSeq(s, 4, Len(s)))
                  c == CHOOSE c \in DOMAIN Ord : Ord[c] = 16 * HexValue(s[2]) + HexValue(s[3])
              IN  IF rest = <<>> THEN <<>> ELSE << <<c>> \o rest[1] >>
         ELSE <<>>
    ELSE IF s[1] \in AlwaysSafe \cup {"/"}
    THEN LET rest == PercentDecoded(Tail(s))
         IN  IF rest = <<>> THEN <<>> ELSE << <<s[1]>> \o rest[1] >>
    ELSE <<>>

\* C8: the video_url of every clip_info get_clip_info returns is the sourceURL
\* of the first entry of videoQualities, then "?sig=" and the signature, then
\* "&token=" and the playback token value percent-encoded.
C8_VideoUrlIsFirstQualitySigned ==
    \A r \in Reqs :
        Resolved(r) =>
            LET reply == QueryReply(r)
                first == Field(Item(QualitiesOf(reply), 1), "sourceURL")
                sig == Field(PlaybackOf(reply), "signature")
                value == Field(PlaybackOf(reply), "value")
                url == clip_info[r][1].video_url.s
            IN  /\ first # <<>> /\ sig # <<>> /\ value # <<>>
                /\ LET head == first[1].s \o <<"?sig=">> \o sig[1].s \o <<"&token=">>
                   IN  /\ Len(url) >= Len(head)
                       /\ SubSeq(url, 1, Len(head)) = head
                       /\ PercentDecoded(SubSeq(url, Len(head) + 1, Len(url)))
                              = <<value[1].s>>

\* A clip_info from a reply with two different qualities and a token value
\* that needs encoding.
C8_Witness ==
    \E r \in Reqs :
        /\ Resolved(r)
        /\ Len(QualitiesOf(QueryReply(r))[1].l) >= 2
        /\ QualitiesOf(QueryReply(r))[1].l[1] # QualitiesOf(QueryReply(r))[1].l[2]
        /\ \E i \in DOMAIN PlaybackOf(QueryReply(r))[1].d.value.s :
               PlaybackOf(QueryReply(r))[1].d.value.s[i] \in {"\"", "%"}

Markers ==
    {<<"b", "o", "t">>, <<"c", "r", "a", "w", "l", "e", "r">>,
     <<"s", "p", "i", "d", "e", "r">>, <<"s", "l", "u", "r", "p">>,
     <<"f", "a", "c", "e", "b", "o", "o", "k", "e", "x", "t", "e", "r", "n", "a", "l",
       "h", "i", "t">>,
     <<"w", "h", "a", "t", "s", "a", "p", "p">>}

\* A user agent mentions a marker: somewhere in it stand the letters of the
\* marker, each in either case.
Mentions(ua, marker) ==
    \E i \in 1..Len(ua) :
        /\ i + Len(marker) - 1 <= Len(ua)
        /\ \A j \in 1..Len(marker) :
               ua[i + j - 1] = marker[j] \/ ua[i + j - 1] = UpperChar(marker[j])

WithAgent(headers, ua) == ("user-agent" :> ua) @@ headers

\* C9: a request is classified as automated exactly when its user agent
\* mentions one of the six markers, in any spelling; the user agent in upper
\* case and in lower case is classified as the user agent itself; and a resolved
\* request is answered with the document exactly when its user agent mentions a
\* marker, whatever the clip.
C9_ClassifiedByUserAgentAlone ==
    \A r \in Reqs :
        req[r] # <<>> =>
            LET headers == req[r][1].headers
                ua == AgentOf(r)
                automated == \E m \in Markers : Mentions(ua, m)
            IN  /\ is_bot(headers) <=> automated
                /\ is_bot(WithAgent(headers, [i \in DOMAIN ua |-> UpperChar(ua[i])]))
                       <=> is_bot(headers)
                /\ is_bot(WithAgent(headers, [i \in DOMAIN ua |-> LowerChar(ua[i])]))
                       <=> is_bot(headers)
                /\ (Answered(r) /\ Resolved(r)) =>
                       (resp[r][1].class = "HTMLResponse" <=> automated)

\* A resolved request whose user agent spells a marker with capitals, answered
\* with the document.
C9_Witness ==
    \E r \in Reqs :
        /\ Answered(r) /\ Resolved(r)
        /\ \E i \in DOMAIN AgentOf(r) : AgentOf(r)[i] = "B"
        /\ ~(\E m \in Markers : Contains(AgentOf(r), m))
        /\ resp[r][1].class = "HTMLResponse"

\* C10: a request for a path that matches no route is answered with status 404
\* and the plain text "Not Found", not with the body of the framework; the
\* middleware replaces a response exactly when its status is 404 and hands on
\* every other response as it is.
C10_NotFoundIsPlainText ==
    \A r \in Reqs :
        (Answered(r) /\ inner[r] # <<>>) =>
            /\ Route(req[r][1].path) = "none" =>
                  /\ resp[r][1].status_code = 404
                  /\ resp[r][1].class = "PlainTextResponse"
                  /\ resp[r][1].media_type = "text/plain"
                  /\ resp[r][1].content = <<"Not Found">>
            /\ inner[r][1].status_code # 404 => resp[r] = inner[r]
            /\ inner[r][1].status_code = 404 =>
                  (resp[r] # inner[r] /\ resp[r][1].content = <<"Not Found">>)

\* An unmatched path answered, and a 500 of handle_clip handed on.
C10_Witness ==
    /\ \E r \in Reqs : Answered(r) /\ Route(req[r][1].path) = "none"
    /\ \E r \in Reqs : Answered(r) /\ resp[r][1].status_code = 500

====
